---- MODULE Spec2Model ----
(***************************************************************************)
(* The session/identity coordinator of                                     *)
(* src/features/auth/contexts/AuthProvider.tsx.                            *)
(*                                                                         *)
(* The store variables hold the value last passed to each React state      *)
(* setter.  One action is one callback of the single JavaScript thread     *)
(* run to completion: a promise continuation, a timer callback, an event   *)
(* delivery or a call of the consumer-facing surface.  The re-render a     *)
(* setter causes, and the effect cleanup and re-run that the re-render     *)
(* causes when a dependency of the effect changed, belong to the step of   *)
(* the callback that called the setter.                                    *)
(***************************************************************************)
EXTENDS Integers, Sequences, FiniteSets, Bags, TLC

\* ------------------------------------------------------------------ bounds
MaxInputs == 2       \* operations the environment starts: auth events, calls
                     \* of the consumer-facing surface, the unmount

\* ------------------------------------------------------------------ values
NoUser == "null"
NoBusiness == "null"
NoError == "null"

\* The accounts of the identity provider and the businesses of the server.
Users == {"A", "B"}
BusinessIds == {"a", "b"}
\* Every effect run after the first follows a replacement of the selection,
\* and the environment's operations bound those (see GenLimitNotReached).
GenLimit == 2 * MaxInputs + 3
Gens == 1..GenLimit

\* A session embeds its user; the provider issues one per account.  The
\* accounts are interchangeable: the one that may be signed in when the
\* coordinator is created is A.
NoSession == [user |-> NoUser, access_token |-> "null"]
Sessions == {[user |-> u, access_token |-> u] : u \in Users}
FirstSession == [user |-> "A", access_token |-> "A"]

NoSubscription ==
  [id |-> "null", user_id |-> NoUser, plan |-> "null", status |-> "null",
   credits |-> 0, credits_used |-> 0]

\* The record the server holds for a user (GET /user/subscription).
ServerSubscription(userId) ==
  [id |-> "sub", user_id |-> userId, plan |-> "pro", status |-> "active",
   credits |-> 100, credits_used |-> 1]

\* The synthesized free-tier record (period_start / period_end are clock
\* readings and are left out).
FreeTier(userId) ==
  [id |-> "", user_id |-> userId, plan |-> "free", status |-> "active",
   credits |-> 25, credits_used |-> 0]

\* What GET /business-profiles can return: no business, two, or another
\* list without the first of them.
BusinessLists == {<<>>, <<"a", "b">>, <<"b">>}

\* A search that also finds an id no business has.
Range_WithAbsent(s) == {s[i] : i \in DOMAIN s} \cup {"zzz"}

\* The ids businesses.find can find in s (line 285).
Range(s) == {s[i] : i \in DOMAIN s}

VARIABLES
  user, session, isAuthenticated, isLoading, error,   \* useState, lines 52-56
  businesses, selectedBusiness, subscription,         \* useState, lines 57-59
  selectedInList,   \* selectedBusiness is the very object held in businesses
  persisted,        \* localStorage["oslira-selected-business"], NoBusiness = absent
  providerSession,  \* the session supabase.auth holds, NoSession = none
  gen,              \* number of runs of the effect so far
  mounted,          \* mounted[g]: the `mounted` flag of the g-th effect run
  boot,             \* boot[g]: state of the g-th initializeAuth call
  subscribed,       \* effect runs whose handler the provider still holds
  unsubscribes,     \* number of authSubscription.unsubscribe() calls
  tokenProviders,   \* effect runs whose token accessor the API layer holds
  torn,             \* the component is unmounted
  timers,           \* pending setTimeout(..., 0) callbacks, in order
  runs,             \* bag of the loader runs with a loader in flight
  signInPending, signOutPending,  \* actions between their await and its result
  bootstrapped,     \* an initializeAuth call has written its result
  sessionDelivered, \* an auth event carrying a session has been delivered
  inputs,           \* operations the environment has started
  cycleDone         \* a loader run for the stored session has settled since it was stored

store == <<user, session, isAuthenticated, isLoading, error,
           businesses, selectedBusiness, subscription>>
sessionVars == <<user, session, isAuthenticated>>
derivedVars == <<businesses, selectedBusiness, subscription>>
selectionVars == <<selectedBusiness, selectedInList, persisted>>
effectVars == <<gen, mounted, boot, subscribed, unsubscribes, tokenProviders>>
actionVars == <<signInPending, signOutPending>>
historyVars == <<bootstrapped, inputs, sessionDelivered, cycleDone>>
vars == <<user, session, isAuthenticated, isLoading, error, businesses,
          selectedBusiness, subscription, selectedInList, persisted,
          providerSession, gen,
          mounted, boot, subscribed, unsubscribes, tokenProviders, torn,
          timers, runs,
          signInPending, signOutPending, bootstrapped, inputs,
          sessionDelivered,
          cycleDone>>

Init ==
  /\ user = NoUser
  /\ session = NoSession
  /\ isAuthenticated = FALSE
  /\ isLoading = TRUE
  /\ error = NoError
  /\ businesses = <<>>
  /\ selectedBusiness = NoBusiness
  /\ subscription = NoSubscription
  /\ selectedInList = FALSE
  /\ persisted = NoBusiness
  /\ providerSession \in {NoSession, FirstSession}
  /\ gen = 1
  /\ mounted = [g \in Gens |-> g = 1]
  /\ boot = [g \in Gens |-> IF g = 1 THEN "pending" ELSE "idle"]
  /\ subscribed = {1}
  /\ unsubscribes = 0
  /\ tokenProviders = {1}
  /\ torn = FALSE
  /\ timers = <<>>
  /\ runs = EmptyBag
  /\ signInPending = 0
  /\ signOutPending = 0
  /\ bootstrapped = FALSE
  /\ sessionDelivered = FALSE
  /\ inputs = 0
  /\ cycleDone = FALSE

\* The environment starts one more operation.
Input == inputs < MaxInputs /\ inputs' = inputs + 1

\* ------------------------------------------------------------ the effect
\* The guards on `mounted` left out.
IsMounted_Unchecked(g) == TRUE

\* `mounted` as the closure of the g-th effect run reads it (lines 141, 268).
IsMounted(g) == mounted[g]

\* An accessor registered in place of those the API layer holds.
SetTokenProvider_Added(g) == tokenProviders \cup {g}

\* httpClient.setTokenProvider (line 260) for the accessor of the g-th effect
\* run: the API layer keeps one accessor, the one registered last.
SetTokenProvider(g) == {g}

\* The token accessor answering from the session of the store.
TokenAccessor_FromStore ==
  IF session = NoSession THEN "null" ELSE session.access_token

\* What the token accessor returns when it is called (lines 260-263): the
\* access token of the session the provider holds then, or null.  The
\* accessor closes over nothing, so that of every effect run is the same.
TokenAccessor ==
  IF providerSession = NoSession THEN "null" ELSE providerSession.access_token

\* useCallback(..., [selectedBusiness]) (line 90) returns a new loadBusinesses
\* whenever selectedBusiness is replaced by another object, and the effect
\* lists loadBusinesses as a dependency (line 271): React then runs the
\* cleanup of the current effect run (lines 266-270) and runs the effect
\* again (lines 139-263): a new `mounted`, a new initializeAuth() call, a new
\* onAuthStateChange subscription.
EffectRerun ==
  /\ gen < GenLimit
  /\ gen' = gen + 1
  /\ mounted' = [mounted EXCEPT ![gen] = FALSE, ![gen + 1] = TRUE]
  /\ boot' = [boot EXCEPT ![gen + 1] = "pending"]
  /\ subscribed' = (subscribed \ {gen}) \cup {gen + 1}
  /\ unsubscribes' = unsubscribes + 1
  /\ tokenProviders' = SetTokenProvider(gen + 1)

\* What React does after a callback that called setSelectedBusiness:
\* `replaced` says that the new value is not the object held before.  An
\* unmounted component is not rendered again.
AfterRender(replaced) ==
  IF replaced /\ ~torn THEN EffectRerun ELSE UNCHANGED effectVars

\* A loader run: loadBusinesses and/or loadSubscription called for userId.
\* The closure of loadBusinesses reads the selectedBusiness of the render
\* that created it (line 73); every caller holds the loadBusinesses of the
\* latest render, so a run captures the selection of the moment it starts.
\* fate is history: "current" says that the session the run was started for
\* has been the stored session ever since, "orphan" that a sign-out event was
\* handled while loadBusinesses was in flight for the signed-in user, "stale"
\* is the rest.
NewRun(userId, biz, sub, fate) ==
  [userId |-> userId, biz |-> biz, sub |-> sub,
   hadSelection |-> selectedBusiness # NoBusiness, fate |-> fate]

\* The runs after one loader of `run` has settled and left it as `after`: a
\* run stays in the bag while one of its loaders is in flight.
Settle(run, after) ==
  IF after.biz # "pending" /\ after.sub # "pending"
    THEN runs (-) SetToBag({run})
    ELSE (runs (-) SetToBag({run})) (+) SetToBag({after})

\* A run of both loaders for the stored session ends with this step.
CompletesCycle(run) ==
  run.fate = "current" /\ run.biz = "done" /\ run.sub = "done"

\* The stored session is replaced: pending work is no longer for it.
Stale(w) == [w EXCEPT !.fate = IF @ = "current" THEN "stale" ELSE @]

Retarget(work, newSession) ==
  IF newSession = session THEN work
  ELSE [i \in DOMAIN work |-> Stale(work[i])]

RetargetRuns(newSession) ==
  IF newSession = session THEN runs ELSE BagOfAll(Stale, runs)

CycleAfter(newSession) == cycleDone /\ newSession = session

\* ------------------------------------------------------------- bootstrap
\* What supabase.auth.getSession() can answer (line 151): it resolves with
\* the session the provider holds, or with a provider-reported error (with
\* or without a session next to it), or it rejects (thrown).
BootstrapOutcomes ==
  [thrown : {FALSE}, session : {providerSession}, sessionError : BOOLEAN]
    \cup [thrown : {FALSE}, session : {NoSession}, sessionError : {TRUE}]
    \cup [thrown : {TRUE}, session : {NoSession}, sessionError : {FALSE}]

\* Line 199 (err.message or the fixed text: some message).
InitErrorMessage == "Failed to initialize auth"

\* The catch block only logging.
BootstrapError_LogOnly(o) == error

\* error after the try/catch of initializeAuth (lines 161-164, 195-200).
BootstrapError(o) ==
  IF o.thrown THEN InitErrorMessage ELSE error

\* Line 173: the authenticated branch is taken.
BootstrapHasSession(o) ==
  ~o.thrown /\ o.session # NoSession /\ ~o.sessionError

\* session, user, isAuthenticated as initializeAuth sets them
\* (lines 173-177, 189-194, 201-203).
BootstrapShape(o) ==
  IF BootstrapHasSession(o)
    THEN [session |-> o.session, user |-> o.session.user, isAuthenticated |-> TRUE]
    ELSE [session |-> NoSession, user |-> NoUser, isAuthenticated |-> FALSE]

\* initializeAuth after its await (lines 154-211).
BootstrapResolve(g, o) ==
  /\ boot[g] = "pending"
  /\ boot' = [boot EXCEPT ![g] = "done"]
  /\ IF ~IsMounted(g)
       THEN UNCHANGED <<store, runs, timers, cycleDone, bootstrapped>>
       ELSE /\ bootstrapped' = TRUE
            /\ session' = BootstrapShape(o).session
            /\ user' = BootstrapShape(o).user
            /\ isAuthenticated' = BootstrapShape(o).isAuthenticated
            /\ error' = BootstrapError(o)
            /\ isLoading' = FALSE
            /\ runs' = IF BootstrapHasSession(o)
                         THEN RetargetRuns(o.session) (+)
                                SetToBag({NewRun(o.session.user, "pending",
                                                 "pending", "current")})
                         ELSE RetargetRuns(NoSession)
            /\ timers' = Retarget(timers, BootstrapShape(o).session)
            /\ cycleDone' = CycleAfter(BootstrapShape(o).session)
            /\ UNCHANGED derivedVars
  /\ UNCHANGED <<selectedInList, persisted, providerSession, gen, mounted,
                 subscribed, unsubscribes, tokenProviders, torn, actionVars,
                 inputs,
                 sessionDelivered>>

\* ---------------------------------------------------------- event listener
\* The (event, session) pairs the provider can deliver next: an account
\* signs in, the session held is refreshed or announced, the session ends.
AuthEvents ==
  ({"SIGNED_IN"} \X Sessions)
    \cup ({"TOKEN_REFRESHED"} \X ({providerSession} \ {NoSession}))
    \cup ({"INITIAL_SESSION"} \X {providerSession})
    \cup ({"SIGNED_OUT"} \X {NoSession})

\* Every event that carries a session schedules the loaders.
LoadsData_Always(event) == TRUE

\* Line 235.
LoadsData(event) == event \in {"SIGNED_IN", "TOKEN_REFRESHED"}

\* The sign-out branch without its setIsAuthenticated(false).
HandlerShape_FlagKept(newSession) ==
  IF newSession # NoSession
    THEN [session |-> newSession, user |-> newSession.user, isAuthenticated |-> TRUE]
    ELSE [session |-> NoSession, user |-> NoUser, isAuthenticated |-> isAuthenticated]

\* session, user, isAuthenticated as the handler sets them
\* (lines 229-232, 247-251).
HandlerShape(newSession) ==
  IF newSession # NoSession
    THEN [session |-> newSession, user |-> newSession.user, isAuthenticated |-> TRUE]
    ELSE [session |-> NoSession, user |-> NoUser, isAuthenticated |-> FALSE]

\* businesses, selectedBusiness, subscription as the sign-out branch of the
\* handler sets them (lines 252-254).
SignedOutData ==
  [businesses |-> <<>>, selectedBusiness |-> NoBusiness,
   subscription |-> NoSubscription]

\* History: the sign-out branch is taken while loadBusinesses is in flight
\* for the user signed in so far.
Orphan(run) ==
  IF run.biz = "pending" /\ user # NoUser /\ run.userId = user
    THEN [run EXCEPT !.fate = "orphan"]
    ELSE IF session = NoSession THEN run ELSE Stale(run)

\* The provider's session becomes newSession and the handler of the latest
\* effect run is called with (event, newSession) (lines 220-256).  After the
\* unmount the provider may still call the handler it was asked to release;
\* the handler's own guard (line 227) decides.
AuthEvent(event, newSession) ==
  /\ Input
  /\ providerSession' = newSession
  /\ IF ~IsMounted(gen)
       THEN UNCHANGED <<store, selectedInList, timers, runs, effectVars,
                        cycleDone>>
       ELSE /\ session' = HandlerShape(newSession).session
            /\ user' = HandlerShape(newSession).user
            /\ isAuthenticated' = HandlerShape(newSession).isAuthenticated
            /\ cycleDone' = CycleAfter(HandlerShape(newSession).session)
            /\ IF newSession # NoSession
                 THEN /\ timers' =
                           IF LoadsData(event)
                             THEN Append(Retarget(timers, newSession),
                                         [gen |-> gen, userId |-> newSession.user,
                                          fate |-> "current"])
                             ELSE Retarget(timers, newSession)
                      /\ runs' = RetargetRuns(newSession)
                      /\ UNCHANGED <<derivedVars, selectedInList, effectVars>>
                 ELSE /\ businesses' = SignedOutData.businesses
                      /\ selectedBusiness' = SignedOutData.selectedBusiness
                      /\ subscription' = SignedOutData.subscription
                      /\ selectedInList' = FALSE
                      /\ timers' = Retarget(timers, NoSession)
                      /\ runs' = BagOfAll(Orphan, runs)
                      /\ AfterRender(selectedBusiness # SignedOutData.selectedBusiness)
            /\ UNCHANGED <<isLoading, error>>
  /\ sessionDelivered' = (sessionDelivered \/ newSession # NoSession)
  /\ UNCHANGED <<persisted, torn, actionVars, bootstrapped>>

\* A setTimeout(..., 0) callback runs (lines 236-245): both loaders are
\* called for the user of the event's session if the effect run is still
\* mounted.
TimerFire ==
  /\ timers # <<>>
  /\ timers' = Tail(timers)
  /\ runs' = IF IsMounted(Head(timers).gen)
               THEN runs (+) SetToBag({NewRun(Head(timers).userId, "pending",
                                              "pending", Head(timers).fate)})
               ELSE runs
  /\ UNCHANGED <<store, selectedInList, persisted, providerSession,
                 effectVars, torn, actionVars, historyVars>>

\* ------------------------------------------------------ derived data loader
\* What httpClient.get('/business-profiles') can answer (lines 70-71, 84):
\* data, a response without success/data, or a rejection.
BusinessResponses ==
  [kind : {"data"}, data : BusinessLists]
    \cup [kind : {"nodata", "throw"}, data : {<<>>}]

\* Line 73: the closure's selectedBusiness decides whether the first
\* business is selected.
SelectsFirst(run, resp) ==
  resp.kind = "data" /\ Len(resp.data) > 0 /\ ~run.hadSelection

\* The continuation of loadBusinesses after its await (lines 71-89).
LoadBusinessesDone(run, resp) ==
  /\ BagIn(run, runs)
  /\ run.biz = "pending"
  /\ runs' = Settle(run, [run EXCEPT !.biz = "done"])
  /\ cycleDone' = (cycleDone \/ CompletesCycle([run EXCEPT !.biz = "done"]))
  /\ IF resp.kind = "data"
       THEN /\ businesses' = resp.data
            /\ IF SelectsFirst(run, resp)
                 THEN /\ selectedBusiness' = resp.data[1]
                      /\ persisted' = resp.data[1]
                      /\ selectedInList' = TRUE
                      /\ AfterRender(TRUE)
                 ELSE /\ selectedInList' = FALSE
                      /\ UNCHANGED <<selectedBusiness, persisted, effectVars>>
       ELSE UNCHANGED <<businesses, selectionVars, effectVars>>
  /\ UNCHANGED <<sessionVars, providerSession, isLoading, error,
                 subscription, torn, timers, actionVars, bootstrapped,
                 sessionDelivered,
                 inputs>>

SubscriptionResponses == {"data", "nodata", "throw"}

\* The catch block storing no subscription (as that of loadBusinesses).
SubscriptionResult_NoFallback(resp, userId) ==
  IF resp = "data" THEN ServerSubscription(userId)
  ELSE IF resp = "nodata" THEN FreeTier(userId)
  ELSE subscription

\* The free-tier record made for the stored user instead of the userId
\* argument.
SubscriptionResult_StoredUser(resp, userId) ==
  IF resp = "data" THEN ServerSubscription(userId) ELSE FreeTier(user)

\* What loadSubscription passes to setSubscription (lines 100-131).
SubscriptionResult(resp, userId) ==
  IF resp = "data" THEN ServerSubscription(userId) ELSE FreeTier(userId)

\* loadSubscription with a catch block that also calls setError.
LoadSubscriptionDone_SetsError(run, resp) ==
  /\ BagIn(run, runs)
  /\ run.sub = "pending"
  /\ runs' = Settle(run, [run EXCEPT !.sub = "done"])
  /\ cycleDone' = (cycleDone \/ CompletesCycle([run EXCEPT !.sub = "done"]))
  /\ subscription' = SubscriptionResult(resp, run.userId)
  /\ error' = IF resp = "throw" THEN "Failed to load subscription" ELSE error
  /\ UNCHANGED <<sessionVars, providerSession, isLoading, businesses,
                 selectionVars, effectVars, torn, timers, actionVars,
                 bootstrapped, sessionDelivered, inputs>>

\* The continuation of loadSubscription after its await (lines 100-131).
LoadSubscriptionDone(run, resp) ==
  /\ BagIn(run, runs)
  /\ run.sub = "pending"
  /\ runs' = Settle(run, [run EXCEPT !.sub = "done"])
  /\ cycleDone' = (cycleDone \/ CompletesCycle([run EXCEPT !.sub = "done"]))
  /\ subscription' = SubscriptionResult(resp, run.userId)
  /\ UNCHANGED <<sessionVars, providerSession, isLoading, error, businesses,
                 selectionVars, effectVars, torn, timers, actionVars,
                 bootstrapped, sessionDelivered, inputs>>

\* refreshBusinesses (lines 276-278).
RefreshBusinesses ==
  /\ ~torn
  /\ Input
  /\ runs' = IF user # NoUser
               THEN runs (+) SetToBag({NewRun(user, "pending", "none", "stale")})
               ELSE runs
  /\ UNCHANGED <<store, selectedInList, persisted, providerSession,
                 effectVars, torn, timers, actionVars, bootstrapped,
                 sessionDelivered,
                 cycleDone>>

\* refreshSubscription (lines 280-282).
RefreshSubscription ==
  /\ ~torn
  /\ Input
  /\ runs' = IF user # NoUser
               THEN runs (+) SetToBag({NewRun(user, "none", "pending", "stale")})
               ELSE runs
  /\ UNCHANGED <<store, selectedInList, persisted, providerSession,
                 effectVars, torn, timers, actionVars, bootstrapped,
                 sessionDelivered,
                 cycleDone>>

\* --------------------------------------------------------- selection state
\* Ids a consumer may pass: those of the businesses and one that no
\* business has.
SelectableIds == BusinessIds \cup {"zzz"}

\* selectBusiness (lines 284-291).  businesses.find returns the object held
\* in the list; React keeps the state when it is the object already stored.
SelectBusiness(businessId) ==
  /\ ~torn
  /\ Input
  /\ IF businessId \in Range(businesses)
       THEN /\ selectedBusiness' = businessId
            /\ persisted' = businessId
            /\ selectedInList' = TRUE
            /\ AfterRender(~(selectedBusiness = businessId /\ selectedInList))
       ELSE UNCHANGED <<selectionVars, effectVars>>
  /\ UNCHANGED <<sessionVars, providerSession, isLoading, error, businesses,
                 subscription, torn, timers, runs, actionVars, bootstrapped,
                 sessionDelivered,
                 cycleDone>>

\* ------------------------------------------------------ sign-in / sign-out
\* What the provider can answer to signInWithOAuth / signOut.
ActionOutcomes == {"ok", "error"}

\* signInWithOAuth up to its await (lines 294-301).
SignInStart ==
  /\ ~torn
  /\ Input
  /\ isLoading' = TRUE
  /\ error' = NoError
  /\ signInPending' = signInPending + 1
  /\ UNCHANGED <<sessionVars, providerSession, derivedVars, selectedInList,
                 persisted,
                 effectVars, torn, timers, runs, signOutPending,
                 bootstrapped, sessionDelivered, cycleDone>>

\* Lines 305-308 (err.message or the fixed text: some message).
SignInErrorMessage == "Failed to sign in with Google"

\* The action throws to its caller: the provider's error is thrown (lines
\* 303, 322) and the catch block throws it again (lines 311, 330).
ActionRethrows(outcome) == outcome # "ok"

\* signInWithOAuth without its finally block.
SignInDone_NoFinally(outcome) ==
  /\ signInPending > 0
  /\ signInPending' = signInPending - 1
  /\ error' = IF outcome = "ok" THEN error ELSE SignInErrorMessage
  /\ isLoading' = (IF outcome = "ok" THEN FALSE ELSE isLoading)
  /\ UNCHANGED <<sessionVars, providerSession, derivedVars, selectedInList,
                 persisted, effectVars, torn, timers, runs, signOutPending,
                 historyVars>>

\* signInWithOAuth after its await (lines 302-313).
SignInDone(outcome) ==
  /\ signInPending > 0
  /\ signInPending' = signInPending - 1
  /\ error' = IF outcome = "ok" THEN error ELSE SignInErrorMessage
  /\ isLoading' = FALSE
  /\ UNCHANGED <<sessionVars, providerSession, derivedVars, selectedInList,
                 persisted,
                 effectVars, torn, timers, runs, signOutPending,
                 historyVars>>

\* signOut up to its await (lines 317-320).
SignOutStart ==
  /\ ~torn
  /\ Input
  /\ isLoading' = TRUE
  /\ error' = NoError
  /\ signOutPending' = signOutPending + 1
  /\ UNCHANGED <<sessionVars, providerSession, derivedVars, selectedInList,
                 persisted,
                 effectVars, torn, timers, runs, signInPending,
                 bootstrapped, sessionDelivered, cycleDone>>

\* Lines 325-328 (err.message or the fixed text: some message).
SignOutErrorMessage == "Failed to sign out"

\* signOut after its await (lines 321-333).  The SIGNED_OUT event the
\* provider emits for a sign-out is a step of AuthEvent.
SignOutDone(outcome) ==
  /\ signOutPending > 0
  /\ signOutPending' = signOutPending - 1
  /\ persisted' = IF outcome = "ok" THEN NoBusiness ELSE persisted
  /\ error' = IF outcome = "ok" THEN error ELSE SignOutErrorMessage
  /\ isLoading' = FALSE
  /\ UNCHANGED <<sessionVars, providerSession, derivedVars, selectedInList,
                 effectVars, torn, timers, runs, signInPending, historyVars>>

\* ---------------------------------------------------------------- teardown
\* The component unmounts: React runs the cleanup of the current effect run
\* (lines 266-270).
Unmount ==
  /\ ~torn
  /\ Input
  /\ torn' = TRUE
  /\ mounted' = [mounted EXCEPT ![gen] = FALSE]
  /\ subscribed' = subscribed \ {gen}
  /\ unsubscribes' = unsubscribes + 1
  /\ UNCHANGED <<store, selectedInList, persisted, providerSession, gen,
                 boot, tokenProviders, timers, runs, actionVars, bootstrapped,
                 sessionDelivered, cycleDone>>

\* ------------------------------------------------------------ specification
Next ==
  \/ \E g \in Gens, o \in BootstrapOutcomes : BootstrapResolve(g, o)
  \/ \E e \in AuthEvents : AuthEvent(e[1], e[2])
  \/ TimerFire
  \/ \E run \in BagToSet(runs), resp \in BusinessResponses :
        LoadBusinessesDone(run, resp)
  \/ \E run \in BagToSet(runs), resp \in SubscriptionResponses :
        LoadSubscriptionDone(run, resp)
  \/ RefreshBusinesses
  \/ RefreshSubscription
  \/ \E businessId \in SelectableIds : SelectBusiness(businessId)
  \/ SignInStart
  \/ \E outcome \in ActionOutcomes : SignInDone(outcome)
  \/ SignOutStart
  \/ \E outcome \in ActionOutcomes : SignOutDone(outcome)
  \/ Unmount

Spec == Init /\ [][Next]_vars


\* -------------------------------------------------------------- properties
\* The effect never runs GenLimit times: the guard of EffectRerun cuts no
\* behaviour off.
GenLimitNotReached == gen < GenLimit

\* Number of initializeAuth calls, and of onAuthStateChange subscriptions:
\* one per effect run.
bootstrapCalls == Cardinality({g \in Gens : boot[g] # "idle"})

\* C1: in every reachable state isAuthenticated is true exactly when session
\* and user are both non-null.
C1_AuthenticatedIffSessionAndUser ==
  isAuthenticated <=> (session # NoSession /\ user # NoUser)

\* An authenticated state reached after an operation of the environment and
\* a completed loader run.
C1_Witness == isAuthenticated /\ cycleDone /\ inputs > 0 /\ user = session.user

\* C2: when a sign-out event was handled while loadBusinesses was in flight
\* for the signed-in user, the completion of that loadBusinesses leaves
\* the cleared businesses empty and the cleared selectedBusiness null.
C2_OrphanLoadNeverResurrects ==
  [][\A run \in BagToSet(runs), resp \in BusinessResponses :
       (/\ run.fate = "orphan"
        /\ businesses = <<>>
        /\ selectedBusiness = NoBusiness
        /\ LoadBusinessesDone(run, resp))
         => (businesses' = <<>> /\ selectedBusiness' = NoBusiness)]_vars

\* C3: the step that handles an event carrying no session clears session,
\* user, isAuthenticated, businesses, selectedBusiness and subscription and
\* removes the persisted selection key.
C3_SignOutEventClearsAll ==
  [][\A e \in AuthEvents :
       (e[2] = NoSession /\ ~torn /\ AuthEvent(e[1], e[2]))
         => (/\ session' = NoSession
             /\ user' = NoUser
             /\ ~isAuthenticated'
             /\ businesses' = <<>>
             /\ selectedBusiness' = NoBusiness
             /\ subscription' = NoSubscription
             /\ persisted' = NoBusiness)]_vars

\* C4: once a run of both loaders started for the stored session has settled,
\* subscription is non-null for as long as that session stays the stored,
\* authenticated one.
C4_SubscriptionAfterCycle ==
  cycleDone => (isAuthenticated /\ subscription # NoSubscription)

\* A cycle has completed whose loadSubscription fell back to the free tier.
C4_Witness ==
  cycleDone /\ isAuthenticated /\ subscription = FreeTier(user)

\* C5: whenever businesses is non-empty and a business is selected, the
\* selected business is one of businesses.
C5_SelectionInBusinesses ==
  (businesses # <<>> /\ selectedBusiness # NoBusiness)
    => selectedBusiness \in Range(businesses)

\* C6: isLoading goes from true to false as a result of bootstrap only once,
\* and once bootstrap has resolved it is true only while a signInWithOAuth
\* or signOut call is in progress.
C6_LoadingClearedOnce ==
  /\ [](bootstrapped /\ isLoading => signInPending + signOutPending > 0)
  /\ [][\A g \in Gens, o \in BootstrapOutcomes :
          (BootstrapResolve(g, o) /\ isLoading /\ ~isLoading') => ~bootstrapped]_vars

\* C7: initializeAuth is called once in the life of the coordinator.
C7_BootstrapOnce == bootstrapCalls <= 1

\* C8: the coordinator subscribes once; exactly one subscription is active
\* until teardown, and unsubscribe is called once, at teardown.
C8_OneSubscriptionForLife ==
  /\ gen = 1
  /\ Cardinality(subscribed) = (IF torn THEN 0 ELSE 1)
  /\ unsubscribes = (IF torn THEN 1 ELSE 0)

\* C9: after teardown, neither the continuation of initializeAuth nor the
\* auth event handler changes session, user, isAuthenticated, isLoading,
\* error, businesses, selectedBusiness or subscription.
C9_NoWriteAfterTeardown ==
  [][torn =>
       /\ \A g \in Gens, o \in BootstrapOutcomes :
            BootstrapResolve(g, o) => UNCHANGED store
       /\ \A e \in AuthEvents :
            AuthEvent(e[1], e[2]) => UNCHANGED store]_vars

\* The only initializeAuth call resolved after the unmount and wrote nothing.
C9_Witness ==
  torn /\ gen = 1 /\ boot[1] = "done" /\ ~bootstrapped /\ isLoading

\* C10 as claimed: when the session fetch of a mounted effect run fails,
\* by rejecting or by reporting a provider error, error is set, the store
\* is forced to the unauthenticated shape and isLoading becomes false.
C10_FailureSetsError ==
  [][\A g \in Gens, o \in BootstrapOutcomes :
       (mounted[g] /\ (o.thrown \/ o.sessionError) /\ BootstrapResolve(g, o))
         => (/\ error' # NoError
             /\ session' = NoSession /\ user' = NoUser /\ ~isAuthenticated'
             /\ ~isLoading')]_vars

\* C10 as amended: a rejected session fetch sets error; a provider error
\* reported in the result leaves error as it was; both force the
\* unauthenticated shape and set isLoading to false.
C10_RejectionSetsError ==
  [][\A g \in Gens, o \in BootstrapOutcomes :
       (mounted[g] /\ (o.thrown \/ o.sessionError) /\ BootstrapResolve(g, o))
         => (/\ error' = (IF o.thrown THEN InitErrorMessage ELSE error)
             /\ session' = NoSession /\ user' = NoUser /\ ~isAuthenticated'
             /\ ~isLoading')]_vars

\* A rejected session fetch has been applied.
C10_Witness ==
  bootstrapped /\ error = InitErrorMessage /\ ~isLoading /\ ~isAuthenticated

\* C11 (scenario A): when a session fetch of a mounted effect run succeeds
\* with no session and no event carrying a session has been delivered, the
\* store after that step is unauthenticated with isLoading false, no
\* subscription and no businesses, no loader is started or scheduled, and
\* error is not set by the step.
C11_NoSessionBootstrap ==
  [][\A g \in Gens, o \in BootstrapOutcomes :
       (/\ mounted[g] /\ ~sessionDelivered
        /\ ~o.thrown /\ ~o.sessionError /\ o.session = NoSession
        /\ BootstrapResolve(g, o))
         => (/\ ~isAuthenticated' /\ session' = NoSession /\ user' = NoUser
             /\ ~isLoading'
             /\ error' = error
             /\ subscription' = NoSubscription
             /\ businesses' = <<>>
             /\ runs' = runs /\ timers' = timers)]_vars

\* C12: a session stored by bootstrap or by an auth event of any kind is
\* followed by a run of the loaders for its user unless the coordinator is
\* torn down: while the stored session is authenticated and its subscription
\* is still null, a loadSubscription for its user is in flight or scheduled,
\* or the session fetch of the current effect run is still pending.
C12_LoaderFollowsSession ==
  (isAuthenticated /\ ~torn /\ subscription = NoSubscription)
    => \/ \E run \in BagToSet(runs) : run.userId = user /\ run.sub = "pending"
       \/ \E i \in DOMAIN timers : timers[i].userId = user
       \/ boot[gen] = "pending"

\* C13: a successful loadBusinesses replaces businesses with the fetched list;
\* when no business is selected as the response is applied and the list is
\* non-empty it selects the first business and persists its id, and when a
\* business is selected at that moment it leaves selectedBusiness and the
\* persisted key as they are.
C13_SelectionDecidedOnArrival ==
  [][\A run \in BagToSet(runs), resp \in BusinessResponses :
       (resp.kind = "data" /\ LoadBusinessesDone(run, resp))
         => (/\ businesses' = resp.data
             /\ IF selectedBusiness = NoBusiness /\ Len(resp.data) > 0
                  THEN /\ selectedBusiness' = resp.data[1]
                       /\ persisted' = resp.data[1]
                  ELSE UNCHANGED <<selectedBusiness, persisted>>)]_vars

\* C14: selectBusiness with an id that no element of businesses has leaves
\* selectedBusiness, the persisted key, businesses, error and the session
\* fields as they are; with the id of an element it makes that business the
\* selected one and persists the id.
C14_SelectBusinessFrame ==
  [][\A businessId \in SelectableIds :
       SelectBusiness(businessId)
         => IF \E i \in DOMAIN businesses : businesses[i] = businessId
              THEN /\ selectedBusiness' = businessId
                   /\ persisted' = businessId
                   /\ UNCHANGED <<businesses, error, sessionVars>>
              ELSE UNCHANGED <<selectedBusiness, persisted, businesses, error,
                               sessionVars>>]_vars

\* The second business of the list has been selected by selectBusiness (a
\* load selects the first).
C14_Witness ==
  /\ businesses = <<"a", "b">>
  /\ selectedBusiness = "b" /\ selectedInList /\ persisted = "b"

\* C15: signInWithOAuth and signOut set isLoading to true and error to null
\* when they start; when they return, after the provider succeeded or
\* failed, isLoading is false; after a failure error is a message and the
\* failure is thrown to the caller.
C15_ActionsResetLoading ==
  [][/\ (SignInStart \/ SignOutStart) => (isLoading' /\ error' = NoError)
     /\ \A outcome \in ActionOutcomes :
          (SignInDone(outcome) \/ SignOutDone(outcome))
            => (/\ ~isLoading'
                /\ outcome = "error"
                     => (error' # NoError /\ ActionRethrows(outcome))
                /\ outcome = "ok" => ~ActionRethrows(outcome))]_vars

\* A signOut call has failed and returned after bootstrap.
C15_Witness ==
  /\ bootstrapped /\ error = SignOutErrorMessage /\ ~isLoading
  /\ signInPending + signOutPending = 0

\* C16: every completion of loadSubscription(userId) stores a subscription:
\* the server's record when the fetch succeeded with data, and otherwise
\* (no data, or a failed fetch) the default record with plan "free", status
\* "active", 25 credits, 0 credits used and user_id = userId.
C16_SubscriptionNeverNull ==
  [][\A run \in BagToSet(runs), resp \in SubscriptionResponses :
       LoadSubscriptionDone(run, resp)
         => (/\ subscription' # NoSubscription
             /\ resp = "data" => subscription' = ServerSubscription(run.userId)
             /\ resp # "data"
                  => subscription' =
                       [id |-> "", user_id |-> run.userId, plan |-> "free",
                        status |-> "active", credits |-> 25,
                        credits_used |-> 0])]_vars

\* A loadSubscription called for A has fallen back to the default record
\* while B is the stored user.
C16_Witness ==
  /\ user = "B"
  /\ subscription.plan = "free" /\ subscription.user_id = "A"
  /\ subscription.credits = 25

\* C17: error changes only when a session fetch of initializeAuth is
\* rejected (to its message), when signInWithOAuth or signOut fails (to its
\* message) and when one of them starts (to null): every other step, so
\* every completion of loadBusinesses and loadSubscription, auth event,
\* selectBusiness and refresh, leaves it unchanged.  A loadBusinesses that
\* got no data also leaves businesses, selectedBusiness and the persisted
\* key unchanged.
C17_ErrorFrame ==
  [][/\ error' # error
          => \/ /\ \E g \in Gens, o \in BootstrapOutcomes :
                     o.thrown /\ BootstrapResolve(g, o)
                /\ error' = InitErrorMessage
             \/ (SignInStart \/ SignOutStart) /\ error' = NoError
             \/ SignInDone("error") /\ error' = SignInErrorMessage
             \/ SignOutDone("error") /\ error' = SignOutErrorMessage
     /\ \A run \in BagToSet(runs), resp \in BusinessResponses :
          (resp.kind # "data" /\ LoadBusinessesDone(run, resp))
            => UNCHANGED <<error, businesses, selectedBusiness, persisted>>]_vars

\* The message of a rejected session fetch is still in error after an event
\* has stored a session and its loadSubscription has completed.
C17_Witness ==
  /\ error = InitErrorMessage
  /\ isAuthenticated /\ sessionDelivered /\ subscription # NoSubscription

\* C18: the token accessor returns, whenever it is called, the access token
\* of the session the provider holds at that moment, and null when the
\* provider holds none; the API layer holds exactly one accessor at any
\* time, that of the latest effect run.
C18_TokenAccessorCurrent ==
  /\ providerSession = NoSession => TokenAccessor = "null"
  /\ providerSession # NoSession => TokenAccessor = providerSession.access_token
  /\ tokenProviders = {gen}

\* The accessor has been registered again, and the provider holds a session
\* of B that the store, left with that of A at the unmount, never received.
C18_Witness ==
  /\ gen > 1 /\ torn
  /\ session.user = "A" /\ providerSession.user = "B"
  /\ TokenAccessor = "B"

\* C19: an auth event that carries a session sets session, user and
\* isAuthenticated inside the handler step and starts no loader run in that
\* step; it schedules one deferred run exactly when its kind is SIGNED_IN or
\* TOKEN_REFRESHED; the run starts in the later step of the timer, and does
\* not start when the coordinator has been torn down before that step.
C19_LoadDeferred ==
  [][/\ \A e \in AuthEvents :
          (e[2] # NoSession /\ IsMounted(gen) /\ AuthEvent(e[1], e[2]))
            => /\ session' = e[2]
               /\ user' = e[2].user
               /\ isAuthenticated'
               /\ BagCardinality(runs') = BagCardinality(runs)
               /\ Len(timers') =
                    Len(timers)
                      + (IF e[1] \in {"SIGNED_IN", "TOKEN_REFRESHED"} THEN 1 ELSE 0)
               /\ e[1] \in {"SIGNED_IN", "TOKEN_REFRESHED"}
                    => timers'[Len(timers')].userId = e[2].user
     /\ TimerFire
          => /\ BagCardinality(runs') <= BagCardinality(runs) + 1
             /\ torn => runs' = runs]_vars

\* The handler has stored the session of B and scheduled the loaders, and
\* the coordinator was torn down before the timer ran: the timer is still
\* to run and no loader has been started.
C19_Witness ==
  /\ torn /\ timers # <<>> /\ runs = EmptyBag
  /\ session # NoSession /\ session.user = "B" /\ isAuthenticated
  /\ timers[Len(timers)].userId = "B"

\* C20: when the session fetch of initializeAuth resolves without a session,
\* with a reported error or by a rejection, the store is left with no
\* businesses, no selected business and no subscription, whatever an auth
\* event applied before the resolution has loaded.
C20_UnauthenticatedBootstrapClears ==
  [][\A g \in Gens, o \in BootstrapOutcomes :
        (IsMounted(g) /\ ~BootstrapHasSession(o) /\ BootstrapResolve(g, o))
          => /\ ~isAuthenticated' /\ session' = NoSession /\ user' = NoUser
             /\ businesses' = <<>>
             /\ selectedBusiness' = NoBusiness
             /\ subscription' = NoSubscription]_vars

\* C21: whenever a user is stored, a stored subscription is the one loaded
\* for that user: a loader run started for A whose response lands after B
\* has signed in leaves no subscription of A in the store of B.
C21_SubscriptionOfCurrentUser ==
  (user # NoUser /\ subscription # NoSubscription)
    => subscription.user_id = user

====
